---- MODULE Spec2Model ----
(***************************************************************************)
(* Maze BFS visualizer and TSP state-space visualizer.                     *)
(*                                                                         *)
(* The maze engine is the Python BFS shown in README.md (queue of paths,   *)
(* visited set, four direction vectors).  The maze client is the React     *)
(* MazeSimulator (processStreamData, runBFS).  The TSP client is the React *)
(* App of the TSP view (runBFS, addToTree); the TSP engine itself is not   *)
(* part of the sources and is modelled from section 4.2 of the spec.       *)
(*                                                                         *)
(* The consumers of a streamed response (the maze client, the earlier maze *)
(* client and the TSP client) are modelled with their transport: chunks,   *)
(* line buffer, JSON.parse, AbortController, reset and a second run.       *)
(***************************************************************************)
EXTENDS Integers, Sequences, FiniteSets, TLC

VARIABLES
    grid,        \* maze request: matrix of 0 (open) / 1 (wall)
    start,       \* maze request: start position <<r, c>>
    end,         \* maze request: end position <<r, c>>
    queue,       \* engine: FIFO list of paths
    visited,     \* engine: set of positions ever enqueued
    events,      \* engine: the events emitted so far, in order
    steps,       \* engine: number of paths dequeued so far
    pc,          \* engine: "running" | "success" | "failure"
    simulation,  \* maze client: SimulationState
    isRunning,   \* maze client: isRunning
    queue2,      \* a second run of the engine on the same request: its queue
    visited2,    \* second run: its visited set
    events2,     \* second run: its events
    pc2,         \* second run: "idle" | "running" | "success" | "failure"
    cities,      \* TSP request: list of cities [id, x, y], id = index - 1
    frontier,    \* TSP engine: FIFO list of routes
    best,        \* TSP engine: [distance, route] of the best tour so far
    tspEvents,   \* TSP engine: the events emitted so far, in order
    tspPc,       \* TSP engine: "idle" | "running" | "done"
    app,         \* TSP client: isRunning, activePath, bestRoute, bestDistance, error
    client,      \* the consumer of a streamed response: "maze" | "mazeOld" | "tsp"
    response,    \* transport: what the backend answers to a request of the client
    run,         \* client: the invocations of runBFS (position, buffer, controller)
    current,     \* client: the run whose controller abortControllerRef holds
    clientGrid   \* maze client: the grid state of MazeSimulator (edited by the user)

mazeVars == <<grid, start, end, queue, visited, events, steps, pc,
              simulation, isRunning>>

run2Vars == <<queue2, visited2, events2, pc2>>

tspVars == <<cities, frontier, best, tspEvents, tspPc, app>>

clientVars == <<client, response, run, current, clientGrid>>

vars == <<mazeVars, run2Vars, tspVars, clientVars>>

-----------------------------------------------------------------------------
(* Bounds of the model *)

MaxRows == 3
MaxCols == 2
MaxWalls == 2
MaxCities == 4
MaxBad == 1
MaxChunk == 4

-----------------------------------------------------------------------------
(* Grid model *)

rows == MaxRows

cols == MaxCols

Cells == (0 .. rows - 1) \X (0 .. cols - 1)

Walls(g) == {p \in Cells : g[p] = 1}

Grids == {g \in [Cells -> {0, 1}] : Cardinality(Walls(g)) <= MaxWalls}

\* constants.ts: START_POS = [1, 1]
START_POS == <<1, 1>>

\* constants.ts: END_POS = [ROWS - 2, COLS - 2]
END_POS == <<rows - 2, cols - 2>>

\* constants.ts: Array.from({length: ROWS}, () => Array(COLS).fill(0))
createEmptyGrid == [p \in Cells |-> 0]

\* mutant: the random grid keeps whatever fell on the start and end cells
createRandomGridKeepsEnds == Grids

\* constants.ts: every cell a wall with WALL_PROBABILITY, then
\* grid[START_POS] = 0 and grid[END_POS] = 0
createRandomGrid == {[g EXCEPT ![START_POS] = 0, ![END_POS] = 0] : g \in Grids}

\* toggleWall: newGrid[r][c] = newGrid[r][c] === 0 ? 1 : 0
toggleWall(g, p) == [g EXCEPT ![p] = IF @ = 0 THEN 1 ELSE 0]

\* cap of the dequeue counter (never binding while visited is respected)
StepCap == rows * cols + 1

Last(s) == s[Len(s)]

Abs(x) == IF x < 0 THEN -x ELSE x

\* mutant: down is tried before up
directionsDownFirst == <<<<1, 0>>, <<0, 1>>, <<-1, 0>>, <<0, -1>>>>

\* directions = [(-1, 0), (0, 1), (1, 0), (0, -1)]
directions == <<<<-1, 0>>, <<0, 1>>, <<1, 0>>, <<0, -1>>>>

\* rows and cols of the grid of a request: len(grid), len(grid[0])
GridRows(g) == Cardinality({p[1] : p \in DOMAIN g})

GridCols(g) == Cardinality({p[2] : p \in DOMAIN g})

\* 0 <= nr < rows and 0 <= nc < cols
InBounds(g, nr, nc) == 0 <= nr /\ nr < GridRows(g) /\ 0 <= nc /\ nc < GridCols(g)

\* mutant: the move is not checked against the visited set
AdmitsRevisit(g, v, nr, nc) ==
    /\ InBounds(g, nr, nc)
    /\ g[<<nr, nc>>] = 0

\* mutant: the move is not checked against the walls
AdmitsWalls(g, v, nr, nc) ==
    /\ InBounds(g, nr, nc)
    /\ <<nr, nc>> \notin v

\* the validation of a move: in bounds, not a wall, not previously visited
Admits(g, v, nr, nc) ==
    /\ InBounds(g, nr, nc)
    /\ g[<<nr, nc>>] = 0
    /\ <<nr, nc>> \notin v

-----------------------------------------------------------------------------
(* Events of the maze stream *)

NoPath == <<>>

NoCell == <<>>

VisitEvent(path) ==
    [type |-> "visit", path |-> path, cell |-> NoCell, success |-> FALSE]

ExpandEvent(path, cell) ==
    [type |-> "expand", path |-> path, cell |-> cell, success |-> FALSE]

CompleteEvent(success, path) ==
    [type |-> "complete", path |-> path, cell |-> NoCell, success |-> success]

-----------------------------------------------------------------------------
(* Maze BFS engine *)

\* mutant: the neighbor is enqueued but not marked as visited
RECURSIVE ExpandNoMark(_, _, _, _, _)
ExpandNoMark(dirs, i, g, current_path, acc) ==
    IF i > Len(dirs) THEN acc
    ELSE LET current_node == Last(current_path)
             nr == current_node[1] + dirs[i][1]
             nc == current_node[2] + dirs[i][2]
         IN  IF Admits(g, acc.visited, nr, nc)
             THEN ExpandNoMark(dirs, i + 1, g, current_path,
                         [queue   |-> Append(acc.queue, Append(current_path, <<nr, nc>>)),
                          visited |-> acc.visited,
                          events  |-> Append(acc.events, ExpandEvent(current_path, <<nr, nc>>))])
             ELSE ExpandNoMark(dirs, i + 1, g, current_path, acc)

\* mutant: the queue stores the position reached, not the path to it
RECURSIVE ExpandCellOnly(_, _, _, _, _)
ExpandCellOnly(dirs, i, g, current_path, acc) ==
    IF i > Len(dirs) THEN acc
    ELSE LET current_node == Last(current_path)
             nr == current_node[1] + dirs[i][1]
             nc == current_node[2] + dirs[i][2]
         IN  IF Admits(g, acc.visited, nr, nc)
             THEN ExpandCellOnly(dirs, i + 1, g, current_path,
                         [queue   |-> Append(acc.queue, <<<<nr, nc>>>>),
                          visited |-> acc.visited \cup {<<nr, nc>>},
                          events  |-> Append(acc.events, ExpandEvent(current_path, <<nr, nc>>))])
             ELSE ExpandCellOnly(dirs, i + 1, g, current_path, acc)

\* for dr, dc in directions: ... visited.add; queue.append(current_path + [(nr, nc)])
\* acc = [queue, visited, events]; dirs is the list iterated, from index i on.
RECURSIVE Expand(_, _, _, _, _)
Expand(dirs, i, g, current_path, acc) ==
    IF i > Len(dirs) THEN acc
    ELSE LET current_node == Last(current_path)
             nr == current_node[1] + dirs[i][1]
             nc == current_node[2] + dirs[i][2]
         IN  IF Admits(g, acc.visited, nr, nc)
             THEN Expand(dirs, i + 1, g, current_path,
                         [queue   |-> Append(acc.queue, Append(current_path, <<nr, nc>>)),
                          visited |-> acc.visited \cup {<<nr, nc>>},
                          events  |-> Append(acc.events, ExpandEvent(current_path, <<nr, nc>>))])
             ELSE Expand(dirs, i + 1, g, current_path, acc)

\* mutant: the column is compared with the row of end
IsGoalRowTwice(current_node, e) == current_node[1] = e[1] /\ current_node[2] = e[1]

\* if current_node[0] == end.r and current_node[1] == end.c
IsGoal(current_node, e) == current_node[1] = e[1] /\ current_node[2] = e[2]

\* mutant: the directions are yielded in any order (as from a set)
IterationOrdersAny ==
    {d \in [1 .. 4 -> {directions[k] : k \in 1 .. 4}] :
        \A i, j \in 1 .. 4 : i # j => d[i] # d[j]}

\* the orders in which "for dr, dc in directions" yields the directions: a
\* list is iterated in index order
IterationOrders == {directions}

\* mutant: the loop goes on after the goal was found
IterationNoStop(dirs, g, e, q, v, ev) ==
    LET current_path == Head(q)
        current_node == Last(current_path)
        rest == Tail(q)
        ev1 == Append(ev, VisitEvent(current_path))
    IN  IF current_node[1] = e[1] /\ current_node[2] = e[2]
        THEN [queue |-> rest, visited |-> v,
              events |-> Append(ev1, CompleteEvent(TRUE, current_path)),
              pc |-> "running"]
        ELSE LET acc == Expand(dirs, 1, g, current_path,
                               [queue |-> rest, visited |-> v, events |-> ev1])
             IN  [queue |-> acc.queue, visited |-> acc.visited,
                  events |-> acc.events, pc |-> "running"]

\* mutant: the visit event of the dequeued path is emitted after its expansions
IterationVisitAfter(dirs, g, e, q, v, ev) ==
    LET current_path == Head(q)
        current_node == Last(current_path)
        rest == Tail(q)
    IN  IF current_node[1] = e[1] /\ current_node[2] = e[2]
        THEN [queue |-> rest, visited |-> v,
              events |-> Append(Append(ev, VisitEvent(current_path)),
                                CompleteEvent(TRUE, current_path)),
              pc |-> "success"]
        ELSE LET acc == Expand(dirs, 1, g, current_path,
                               [queue |-> rest, visited |-> v, events |-> ev])
             IN  [queue |-> acc.queue, visited |-> acc.visited,
                  events |-> Append(acc.events, VisitEvent(current_path)),
                  pc |-> "running"]

\* mutant: the path is taken from the end of the list (queue.pop())
IterationPopLast(dirs, g, e, q, v, ev) ==
    LET current_path == q[Len(q)]
        current_node == Last(current_path)
        rest == SubSeq(q, 1, Len(q) - 1)
        ev1 == Append(ev, VisitEvent(current_path))
    IN  IF current_node[1] = e[1] /\ current_node[2] = e[2]
        THEN [queue |-> rest, visited |-> v,
              events |-> Append(ev1, CompleteEvent(TRUE, current_path)),
              pc |-> "success"]
        ELSE LET acc == Expand(dirs, 1, g, current_path,
                               [queue |-> rest, visited |-> v, events |-> ev1])
             IN  [queue |-> acc.queue, visited |-> acc.visited,
                  events |-> acc.events, pc |-> "running"]

\* One iteration of "while queue": pop(0), goal check, neighbor expansion.
\* Result: the new [queue, visited, events, pc].
Iteration(dirs, g, e, q, v, ev) ==
    LET current_path == Head(q)
        current_node == Last(current_path)
        rest == Tail(q)
        ev1 == Append(ev, VisitEvent(current_path))
    IN  IF IsGoal(current_node, e)
        THEN [queue |-> rest, visited |-> v,
              events |-> Append(ev1, CompleteEvent(TRUE, current_path)),
              pc |-> "success"]
        ELSE LET acc == Expand(dirs, 1, g, current_path,
                               [queue |-> rest, visited |-> v, events |-> ev1])
             IN  [queue |-> acc.queue, visited |-> acc.visited,
                  events |-> acc.events, pc |-> "running"]

-----------------------------------------------------------------------------
(* Maze client: SimulationState and the event handler *)

getInitialSimulationState ==
    [activePath |-> <<>>, solutionPath |-> <<>>, visitedCells |-> {},
     status |-> "idle", error |-> ""]

\* mutant: complete copies the active path whatever the outcome
processStreamDataKeepsPath(st, event) ==
    CASE event.type = "visit" ->
           IF event.path # NoPath
           THEN [st EXCEPT !.simulation.activePath = event.path,
                           !.simulation.visitedCells = @ \cup {Last(event.path)}]
           ELSE st
      [] event.type = "complete" ->
           [st EXCEPT !.isRunning = FALSE,
                      !.simulation.status = IF event.success THEN "success" ELSE "failure",
                      !.simulation.solutionPath = st.simulation.activePath]
      [] OTHER -> st

\* processStreamData(event, controller) with controller not aborted;
\* st = [simulation, isRunning]
processStreamData(st, event) ==
    CASE event.type = "visit" ->
           IF event.path # NoPath
           THEN [st EXCEPT !.simulation.activePath = event.path,
                           !.simulation.visitedCells = @ \cup {Last(event.path)}]
           ELSE st
      [] event.type = "complete" ->
           [st EXCEPT !.isRunning = FALSE,
                      !.simulation.status = IF event.success THEN "success" ELSE "failure",
                      !.simulation.solutionPath =
                          IF event.success THEN st.simulation.activePath ELSE <<>>]
      [] OTHER -> st

\* the events of one engine step dispatched in order
RECURSIVE Dispatch(_, _, _)
Dispatch(st, evs, i) ==
    IF i > Len(evs) THEN st
    ELSE Dispatch(processStreamData(st, evs[i]), evs, i + 1)

-----------------------------------------------------------------------------
(* TSP: cities, distances, events *)

\* bestDistance?: number | null
Null == -1

\* coordinates of the cities of the model: every distance between two of
\* these points is an integer (3, 4 or 5), so Math.sqrt is exact on them
XS == {0, 3}

YS == {0, 4}

CityLists ==
    UNION {{[i \in 1 .. n |-> [id |-> i - 1, x |-> f[i][1], y |-> f[i][2]]] :
              f \in [1 .. n -> XS \X YS]} : n \in 1 .. MaxCities}

\* Math.sqrt on a perfect square
Sqrt(n) == CHOOSE r \in 0 .. n : r * r = n

getDistance(c1, c2) ==
    LET dx == c1.x - c2.x
        dy == c1.y - c2.y
    IN  Sqrt(dx * dx + dy * dy)

\* cities.find(c => c.id === id)
CityOf(cs, id) == cs[id + 1]

\* sum of the consecutive-city distances of R, left to right
RECURSIVE RouteDistance(_, _, _)
RouteDistance(cs, R, i) ==
    IF i >= Len(R) THEN 0
    ELSE getDistance(CityOf(cs, R[i]), CityOf(cs, R[i + 1])) + RouteDistance(cs, R, i + 1)

\* total distance of a complete route: plus the closing edge back to city 0
TotalDistance(cs, R) ==
    RouteDistance(cs, R, 1) + getDistance(CityOf(cs, Last(R)), CityOf(cs, 0))

NoRoute == <<>>

NoBest == [distance |-> Null, route |-> NoRoute]

ProcessingStep(route, bestDistance) ==
    [type |-> "processing", route |-> route, parentPath |-> NoRoute, childCity |-> Null,
     bestDistance |-> bestDistance, bestRoute |-> NoRoute, isBest |-> FALSE]

ExpandStep(parentPath, route, childCity, bestDistance) ==
    [type |-> "expand", route |-> route, parentPath |-> parentPath, childCity |-> childCity,
     bestDistance |-> bestDistance, bestRoute |-> NoRoute, isBest |-> FALSE]

LeafStep(route, isBest, bestDistance, bestRoute) ==
    [type |-> "leaf", route |-> route, parentPath |-> NoRoute, childCity |-> Null,
     bestDistance |-> bestDistance, bestRoute |-> bestRoute, isBest |-> isBest]

DoneStep(bestDistance, bestRoute) ==
    [type |-> "done", route |-> NoRoute, parentPath |-> NoRoute, childCity |-> Null,
     bestDistance |-> bestDistance, bestRoute |-> bestRoute, isBest |-> FALSE]

-----------------------------------------------------------------------------
(* TSP state-space engine (section 4.2) *)

InRoute(R, c) == \E k \in 1 .. Len(R) : R[k] = c

\* mutant: only the cities after the last city of R are tried (routes that
\* differ by the order of their cities are taken as one)
RECURSIVE ExpandRouteAscending(_, _, _, _, _)
ExpandRouteAscending(R, c, n, bd, acc) ==
    IF c >= n THEN acc
    ELSE IF InRoute(R, c) \/ c < R[Len(R)] THEN ExpandRouteAscending(R, c + 1, n, bd, acc)
    ELSE ExpandRouteAscending(R, c + 1, n, bd,
                     [frontier |-> Append(acc.frontier, Append(R, c)),
                      events   |-> Append(acc.events, ExpandStep(R, Append(R, c), c, bd))])

\* for every city not yet in R, by increasing id: emit expand, enqueue R + [city]
\* acc = [frontier, events]
RECURSIVE ExpandRoute(_, _, _, _, _)
ExpandRoute(R, c, n, bd, acc) ==
    IF c >= n THEN acc
    ELSE IF InRoute(R, c) THEN ExpandRoute(R, c + 1, n, bd, acc)
    ELSE ExpandRoute(R, c + 1, n, bd,
                     [frontier |-> Append(acc.frontier, Append(R, c)),
                      events   |-> Append(acc.events, ExpandStep(R, Append(R, c), c, bd))])

\* improves: strictly less than the current best (anything improves on none)
Improves(total, bd) == bd = Null \/ total < bd

\* One iteration: dequeue R, emit processing, then leaf or expansion.
\* Result: the new [frontier, best, events].
TspIteration(cs, q, b, ev) ==
    LET R == Head(q)
        rest == Tail(q)
        ev1 == Append(ev, ProcessingStep(R, b.distance))
    IN  IF Len(R) = Len(cs)
        THEN LET total == TotalDistance(cs, R)
                 isBest == Improves(total, b.distance)
                 nb == IF isBest THEN [distance |-> total, route |-> R] ELSE b
             IN  [frontier |-> rest, best |-> nb,
                  events |-> Append(ev1, LeafStep(R, isBest, nb.distance, nb.route))]
        ELSE LET acc == ExpandRoute(R, 0, Len(cs), b.distance,
                                    [frontier |-> rest, events |-> ev1])
             IN  [frontier |-> acc.frontier, best |-> b, events |-> acc.events]

-----------------------------------------------------------------------------
(* TSP client: the tree of routes and the handlers of runBFS *)

\* newRoute.join('-')
RECURSIVE Join(_)
Join(route) ==
    IF route = <<>> THEN ""
    ELSE IF Len(route) = 1 THEN ToString(route[1])
    ELSE Join(SubSeq(route, 1, Len(route) - 1)) \o "-" \o ToString(Last(route))

\* treeRoot === null
NoTree == <<>>

\* a TreeNode, listed with its place in the tree: at = the city indices on the
\* way from the root down to the node (the nesting of the children arrays)
TreeNode(at, id, cityIndex, depth) ==
    [at |-> at, id |-> id, cityIndex |-> cityIndex, depth |-> depth]

\* { id: "0", cityIndex: 0, depth: 0, children: [] }
RootOnly == <<TreeNode(<<0>>, "0", 0, 0)>>

\* children.find(c => c.cityIndex === city) under the node at place at
HasNode(root, at) == \E i \in 1 .. Len(root) : root[i].at = at

\* the node the walk of addToTree stands on after following parentPath from
\* its second city on, starting at the root
WalkEnd(parentPath) ==
    <<0>> \o (IF parentPath = <<>> THEN <<>> ELSE Tail(parentPath))

\* mutant: the child is pushed without looking for it among the children
addToTreeNoFind(root, parentPath, newRoute, childCity) ==
    IF root = NoTree THEN RootOnly
    ELSE LET cur == WalkEnd(parentPath)
         IN  IF \E k \in 2 .. Len(cur) : ~HasNode(root, SubSeq(cur, 1, k))
             THEN root
             ELSE Append(root, TreeNode(Append(cur, childCity), Join(newRoute),
                                        childCity, Len(newRoute) - 1))

\* addToTree(root, parentPath, newRoute, childCity); the nodes in the order
\* they were pushed (distanceFromParent is not modelled)
addToTree(root, parentPath, newRoute, childCity) ==
    IF root = NoTree THEN RootOnly
    ELSE LET cur == WalkEnd(parentPath)
         IN  IF \E k \in 2 .. Len(cur) : ~HasNode(root, SubSeq(cur, 1, k))
             THEN root
             ELSE IF HasNode(root, Append(cur, childCity))
             THEN root
             ELSE Append(root, TreeNode(Append(cur, childCity), Join(newRoute),
                                        childCity, Len(newRoute) - 1))

\* mutant: the leaf handler replaces the best route whatever isBest says
TspHandleAnyLeaf(a, data) ==
    CASE data.type = "expand" ->
           [a EXCEPT !.treeRoot = addToTree(@, data.parentPath, data.route, data.childCity),
                     !.bestDistance = data.bestDistance]
      [] data.type = "processing" ->
           [a EXCEPT !.activePath = data.route, !.bestDistance = data.bestDistance]
      [] data.type = "leaf" ->
           [a EXCEPT !.treeRoot = addToTree(@, data.route, Append(data.route, 0), 0),
                     !.activePath = Append(data.route, 0),
                     !.bestRoute = Append(data.route, 0),
                     !.bestDistance = data.bestDistance]
      [] data.type = "done" -> [a EXCEPT !.isRunning = FALSE, !.activePath = <<>>]
      [] OTHER -> a

\* mutant: the leaf handler does not take over the best distance
TspHandleNoDistance(a, data) ==
    CASE data.type = "expand" ->
           [a EXCEPT !.treeRoot = addToTree(@, data.parentPath, data.route, data.childCity),
                     !.bestDistance = data.bestDistance]
      [] data.type = "processing" ->
           [a EXCEPT !.activePath = data.route, !.bestDistance = data.bestDistance]
      [] data.type = "leaf" ->
           IF data.isBest
           THEN [a EXCEPT !.treeRoot = addToTree(@, data.route, Append(data.route, 0), 0),
                          !.activePath = Append(data.route, 0),
                          !.bestRoute = Append(data.route, 0)]
           ELSE [a EXCEPT !.treeRoot = addToTree(@, data.route, Append(data.route, 0), 0),
                          !.activePath = Append(data.route, 0)]
      [] data.type = "done" -> [a EXCEPT !.isRunning = FALSE, !.activePath = <<>>]
      [] OTHER -> a

\* mutant: a best distance is taken over only when it is truthy (0 is not)
TspHandleFalsyZero(a, data) ==
    CASE data.type = "expand" ->
           [a EXCEPT !.treeRoot = addToTree(@, data.parentPath, data.route, data.childCity),
                     !.bestDistance = data.bestDistance]
      [] data.type = "processing" ->
           [a EXCEPT !.activePath = data.route, !.bestDistance = data.bestDistance]
      [] data.type = "leaf" ->
           IF data.isBest
           THEN [a EXCEPT !.treeRoot = addToTree(@, data.route, Append(data.route, 0), 0),
                          !.activePath = Append(data.route, 0),
                          !.bestRoute = Append(data.route, 0),
                          !.bestDistance = IF data.bestDistance = 0
                                           THEN a.bestDistance ELSE data.bestDistance]
           ELSE [a EXCEPT !.treeRoot = addToTree(@, data.route, Append(data.route, 0), 0),
                          !.activePath = Append(data.route, 0)]
      [] data.type = "done" -> [a EXCEPT !.isRunning = FALSE, !.activePath = <<>>]
      [] OTHER -> a

\* the body of "for (const line of lines)" on a parsed BfsStep
TspHandle(a, data) ==
    CASE data.type = "expand" ->
           [a EXCEPT !.treeRoot = addToTree(@, data.parentPath, data.route, data.childCity),
                     !.bestDistance = data.bestDistance]
      [] data.type = "processing" ->
           [a EXCEPT !.activePath = data.route, !.bestDistance = data.bestDistance]
      [] data.type = "leaf" ->
           LET fullRoute == Append(data.route, 0)
           IN  IF data.isBest
               THEN [a EXCEPT !.treeRoot = addToTree(@, data.route, fullRoute, 0),
                              !.activePath = fullRoute,
                              !.bestRoute = fullRoute,
                              !.bestDistance = data.bestDistance]
               ELSE [a EXCEPT !.treeRoot = addToTree(@, data.route, fullRoute, 0),
                              !.activePath = fullRoute]
      [] data.type = "done" -> [a EXCEPT !.isRunning = FALSE, !.activePath = <<>>]
      [] OTHER -> a

RECURSIVE TspDispatch(_, _, _)
TspDispatch(a, evs, i) ==
    IF i > Len(evs) THEN a
    ELSE TspDispatch(TspHandle(a, evs[i]), evs, i + 1)

-----------------------------------------------------------------------------
(* Streamed response: lines, text, chunks *)

\* the whole run of the maze engine on a request: its list of events
RECURSIVE MazeRun(_, _, _, _, _)
MazeRun(g, e, q, v, ev) ==
    IF q = <<>> THEN Append(ev, CompleteEvent(FALSE, NoPath))
    ELSE LET r == Iteration(directions, g, e, q, v, ev)
         IN  IF r.pc = "running" THEN MazeRun(g, e, r.queue, r.visited, r.events)
             ELSE r.events

\* the whole run of the TSP engine on a list of cities: its list of events
RECURSIVE TspRun(_, _, _, _)
TspRun(cs, q, b, ev) ==
    IF q = <<>> THEN Append(ev, DoneStep(b.distance, b.route))
    ELSE LET r == TspIteration(cs, q, b, ev)
         IN  TspRun(cs, r.frontier, r.best, r.events)

\* MazeStep of the earlier maze client: processing(route), expand(childNode),
\* leaf(isSolution, route), done(success), in the fields path, cell, success
RECURSIVE OldProtocol(_, _)
OldProtocol(evs, i) ==
    IF i > Len(evs) THEN <<>>
    ELSE LET e == evs[i]
         IN  (CASE e.type = "visit" -> <<[e EXCEPT !.type = "processing"]>>
                [] e.type = "expand" -> <<e>>
                [] e.type = "complete" ->
                     IF e.success
                     THEN <<[e EXCEPT !.type = "leaf"], [e EXCEPT !.type = "done", !.path = NoPath]>>
                     ELSE <<[e EXCEPT !.type = "done"]>>)
             \o OldProtocol(evs, i + 1)

Clients == {"maze", "mazeOld", "tsp"}

SampleGrid == [p \in Cells |-> 0]

SampleCities == <<[id |-> 0, x |-> 0, y |-> 0], [id |-> 1, x |-> 3, y |-> 4]>>

\* the events the backend streams for the request of the model: the open
\* grid from <<0, 0>> to <<0, 1>>, or the two cities
SampleStream(c) ==
    LET m == MazeRun(SampleGrid, <<0, 1>>, <<<<<<0, 0>>>>>>, {<<0, 0>>}, <<>>)
    IN  CASE c = "maze" -> m
          [] c = "mazeOld" -> OldProtocol(m, 1)
          [] c = "tsp" -> TspRun(SampleCities, <<<<0>>>>, NoBest, <<>>)

\* a line of the response: the event it carries, and whether its text got
\* malformed on the way
Line(ev, bad) == [event |-> ev, bad |-> bad]

\* the responses to a request: the first len lines of the stream with the
\* lines of B malformed, the body then closed or broken; or no stream at
\* all (non-2xx status, connection refused)
Responses(c) ==
    LET S == SampleStream(c)
    IN  {[status |-> "ok", lines |-> [k \in 1 .. len |-> Line(S[k], k \in B)], end |-> e] :
            len \in 0 .. Len(S),
            B \in {X \in SUBSET (1 .. Len(S)) : Cardinality(X) <= MaxBad},
            e \in {"close", "fail"}}
        \cup {[status |-> st, lines |-> <<>>, end |-> "fail"] : st \in {"http", "network"}}

\* the characters of the body: line k is two characters of JSON text and
\* the newline that ends it (part 0)
Sym(k, part) == [line |-> k, part |-> part]

RECURSIVE Serialize(_, _)
Serialize(lines, k) ==
    IF k > Len(lines) THEN <<>>
    ELSE <<Sym(k, 1), Sym(k, 2), Sym(k, 0)>> \o Serialize(lines, k + 1)

IsNewline(ch) == ch.part = 0

\* mutant: the text left over after the last newline of a chunk is dropped
RECURSIVE SplitNoCarry(_, _, _, _)
SplitNoCarry(text, i, cur, acc) ==
    IF i > Len(text) THEN [lines |-> acc, buffer |-> <<>>]
    ELSE IF IsNewline(text[i]) THEN SplitNoCarry(text, i + 1, <<>>, Append(acc, cur))
    ELSE SplitNoCarry(text, i + 1, Append(cur, text[i]), acc)

\* lines = buffer.split("\n"); buffer = lines.pop() || ""
RECURSIVE Split(_, _, _, _)
Split(text, i, cur, acc) ==
    IF i > Len(text) THEN [lines |-> acc, buffer |-> cur]
    ELSE IF IsNewline(text[i]) THEN Split(text, i + 1, <<>>, Append(acc, cur))
    ELSE Split(text, i + 1, Append(cur, text[i]), acc)

\* JSON.parse(line): the event of a line whose text is whole and well-formed,
\* a SyntaxError otherwise
Parse(lines, line) ==
    IF /\ Len(line) = 2
       /\ line[1].part = 1 /\ line[2].part = 2
       /\ line[1].line = line[2].line
       /\ ~lines[line[1].line].bad
    THEN [ok |-> TRUE, event |-> lines[line[1].line].event]
    ELSE [ok |-> FALSE, event |-> lines[line[1].line].event]

-----------------------------------------------------------------------------
(* The three consumers: displayed state and the steps of runBFS *)

\* the displayed state d = [simulation, isRunning, app]

\* the event handlers of the earlier maze client
MazeStepHandle(st, data) ==
    CASE data.type = "processing" /\ data.path # NoPath ->
           [st EXCEPT !.simulation.activePath = data.path]
      [] data.type = "expand" /\ data.cell # NoCell ->
           [st EXCEPT !.simulation.visitedCells = @ \cup {data.cell}]
      [] data.type = "leaf" /\ data.success /\ data.path # NoPath ->
           [st EXCEPT !.simulation.solutionPath = data.path,
                      !.simulation.activePath = <<>>]
      [] data.type = "done" ->
           [st EXCEPT !.isRunning = FALSE,
                      !.simulation.status = IF data.success THEN "success" ELSE "failure"]
      [] OTHER -> st

\* a parsed event applied to the displayed state by the consumer c
Handle(c, d, ev) ==
    CASE c = "tsp" -> [d EXCEPT !.app = TspHandle(d.app, ev)]
      [] c = "maze" ->
           LET st == processStreamData([simulation |-> d.simulation,
                                        isRunning |-> d.isRunning], ev)
           IN  [d EXCEPT !.simulation = st.simulation, !.isRunning = st.isRunning]
      [] c = "mazeOld" ->
           LET st == MazeStepHandle([simulation |-> d.simulation,
                                     isRunning |-> d.isRunning], ev)
           IN  [d EXCEPT !.simulation = st.simulation, !.isRunning = st.isRunning]

ConnectionError(c) ==
    IF c = "tsp" THEN "Error connecting to Python backend. Is it running on port 8000?"
    ELSE "Connection to Python backend failed."

\* mutant: the catch block does not tell an abort from a failure
SettleAbortAsError(c, d, how) ==
    CASE c = "tsp" ->
           [d EXCEPT !.app.error = IF how = "end" THEN @ ELSE ConnectionError(c),
                     !.app.isRunning = FALSE]
      [] c = "maze" ->
           IF how # "end"
           THEN [d EXCEPT !.simulation.error = ConnectionError(c), !.isRunning = FALSE]
           ELSE d
      [] c = "mazeOld" ->
           IF how = "end" THEN d
           ELSE [d EXCEPT !.simulation.error = ConnectionError(c), !.isRunning = FALSE]

\* the way runBFS is left: how = "error" (an Error that is not an AbortError
\* was thrown), "abort" (AbortError), "end" (the body is done)
Settle(c, d, how) ==
    CASE c = "tsp" ->
           [d EXCEPT !.app.error = IF how = "error" THEN ConnectionError(c) ELSE @,
                     !.app.isRunning = FALSE]
      [] c = "maze" ->
           IF how = "error"
           THEN [d EXCEPT !.simulation.error = ConnectionError(c), !.isRunning = FALSE]
           ELSE d
      [] c = "mazeOld" ->
           IF how = "end" THEN d
           ELSE [d EXCEPT !.simulation.error = IF how = "error" THEN ConnectionError(c) ELSE @,
                          !.isRunning = FALSE]

\* reset / resetSimulation / resetMaze on the displayed state
ResetDisplay(c, d) ==
    IF c = "tsp"
    THEN [d EXCEPT !.app = [isRunning |-> FALSE, activePath |-> <<>>, bestRoute |-> <<>>,
                            bestDistance |-> Null, error |-> "", treeRoot |-> NoTree]]
    ELSE [d EXCEPT !.simulation = getInitialSimulationState, !.isRunning = FALSE]

\* the state updates at the head of runBFS
StartDisplay(c, d) ==
    IF c = "tsp"
    THEN [d EXCEPT !.app = [isRunning |-> TRUE, activePath |-> <<>>, bestRoute |-> <<>>,
                            bestDistance |-> Null, error |-> "", treeRoot |-> RootOnly]]
    ELSE [d EXCEPT !.simulation = [getInitialSimulationState EXCEPT !.status = "running"],
                   !.isRunning = TRUE]

\* for (const line of lines): from line i on.
\* acc = [d, seen, pc, pending]: displayed state, events dispatched by this
\* run, where the run stands afterwards, lines left for after the pacing delay
RECURSIVE ProcessLines(_, _, _, _, _)
ProcessLines(c, lines, segs, i, acc) ==
    IF i > Len(segs) THEN acc
    ELSE IF segs[i] = <<>> THEN ProcessLines(c, lines, segs, i + 1, acc)
    ELSE LET p == Parse(lines, segs[i])
         IN  IF ~p.ok
             THEN IF c = "tsp"
                  THEN ProcessLines(c, lines, segs, i + 1, acc)
                  ELSE [acc EXCEPT !.d = Settle(c, acc.d, "error"), !.pc = "failed"]
             ELSE LET acc1 == [acc EXCEPT !.d = Handle(c, acc.d, p.event),
                                          !.seen = Append(@, p.event)]
                  IN  IF c = "maze" /\ p.event.type # "complete"
                      THEN [acc1 EXCEPT !.pc = "delay",
                                        !.pending = SubSeq(segs, i + 1, Len(segs))]
                      ELSE ProcessLines(c, lines, segs, i + 1, acc1)

Runs == {1, 2}

IdleRun == [pc |-> "idle", pos |-> 0, buffer |-> <<>>, pending |-> <<>>,
            aborted |-> FALSE, seen |-> <<>>]

StartedRun == [IdleRun EXCEPT !.pc = "fetch"]

ClientIdle ==
    /\ client = "none"
    /\ response = [status |-> "none", lines |-> <<>>, end |-> "close"]
    /\ run = [r \in Runs |-> IdleRun]
    /\ current = 0
    /\ clientGrid = createEmptyGrid

-----------------------------------------------------------------------------
(* Specification of one maze run: request, engine, client *)

\* start_tuple = (start.r, start.c); queue = [[start_tuple]]; visited = {start_tuple}
\* client side: runBFS has set isRunning and status "running"
MazeInit ==
    /\ grid \in Grids
    /\ start \in Cells
    /\ end \in Cells
    /\ queue = <<<<start>>>>
    /\ visited = {start}
    /\ events = <<>>
    /\ steps = 0
    /\ pc = "running"
    /\ simulation = [getInitialSimulationState EXCEPT !.status = "running"]
    /\ isRunning = TRUE

Run2Idle ==
    /\ queue2 = <<>>
    /\ visited2 = {}
    /\ events2 = <<>>
    /\ pc2 = "idle"

TspEngineIdle ==
    /\ cities = <<>>
    /\ frontier = <<>>
    /\ best = NoBest
    /\ tspEvents = <<>>
    /\ tspPc = "idle"

TspIdle ==
    /\ TspEngineIdle
    /\ app = [isRunning |-> FALSE, activePath |-> <<>>, bestRoute |-> <<>>,
              bestDistance |-> Null, error |-> "", treeRoot |-> NoTree]

MazeEngineIdle ==
    /\ grid = [p \in Cells |-> 0]
    /\ start = <<0, 0>>
    /\ end = <<0, 0>>
    /\ queue = <<>>
    /\ visited = {}
    /\ events = <<>>
    /\ steps = 0
    /\ pc = "idle"

MazeIdle ==
    /\ MazeEngineIdle
    /\ simulation = getInitialSimulationState
    /\ isRunning = FALSE

\* frontier = [[0]]; client side: runBFS has reset the state and set isRunning
TspInit ==
    /\ cities \in CityLists
    /\ frontier = <<<<0>>>>
    /\ best = NoBest
    /\ tspEvents = <<>>
    /\ tspPc = "running"
    /\ app = [isRunning |-> TRUE, activePath |-> <<>>, bestRoute |-> <<>>,
              bestDistance |-> Null, error |-> "", treeRoot |-> RootOnly]

Init == MazeInit /\ Run2Idle /\ TspIdle /\ ClientIdle

\* while queue: one iteration of the loop, its events applied by the client
MazeStep ==
    /\ pc = "running"
    /\ queue # <<>>
    /\ steps < StepCap
    /\ \E dirs \in IterationOrders :
       LET r == Iteration(dirs, grid, end, queue, visited, events)
           new == SubSeq(r.events, Len(events) + 1, Len(r.events))
           st == Dispatch([simulation |-> simulation, isRunning |-> isRunning], new, 1)
       IN  /\ queue' = r.queue
           /\ visited' = r.visited
           /\ events' = r.events
           /\ pc' = r.pc
           /\ simulation' = st.simulation
           /\ isRunning' = st.isRunning
    /\ steps' = steps + 1
    /\ UNCHANGED <<grid, start, end, run2Vars, tspVars, clientVars>>

\* the queue is empty: the loop ends without having reached end
MazeExhausted ==
    /\ pc = "running"
    /\ queue = <<>>
    /\ LET e == CompleteEvent(FALSE, NoPath)
           st == processStreamData([simulation |-> simulation, isRunning |-> isRunning], e)
       IN  /\ events' = Append(events, e)
           /\ simulation' = st.simulation
           /\ isRunning' = st.isRunning
    /\ pc' = "failure"
    /\ UNCHANGED <<grid, start, end, queue, visited, steps, run2Vars, tspVars, clientVars>>

Next == MazeStep \/ MazeExhausted

Spec == Init /\ [][Next]_vars

-----------------------------------------------------------------------------
(* Two runs of the engine on the same request, stepped together *)

InitTwoRuns ==
    /\ MazeInit
    /\ TspIdle
    /\ ClientIdle
    /\ queue2 = <<<<start>>>>
    /\ visited2 = {start}
    /\ events2 = <<>>
    /\ pc2 = "running"

\* the second run: one iteration of its loop, or the end of its loop
Run2Step ==
    /\ pc2 = "running"
    /\ IF queue2 # <<>>
       THEN \E dirs \in IterationOrders :
               LET r == Iteration(dirs, grid, end, queue2, visited2, events2)
               IN  /\ queue2' = r.queue
                   /\ visited2' = r.visited
                   /\ events2' = r.events
                   /\ pc2' = r.pc
       ELSE /\ events2' = Append(events2, CompleteEvent(FALSE, NoPath))
            /\ pc2' = "failure"
            /\ UNCHANGED <<queue2, visited2>>

\* the first run's step with the second run left free
Run1Step ==
    \/ /\ pc = "running"
       /\ queue # <<>>
       /\ steps < StepCap
       /\ \E dirs \in IterationOrders :
            LET r == Iteration(dirs, grid, end, queue, visited, events)
            IN  /\ queue' = r.queue
                /\ visited' = r.visited
                /\ events' = r.events
                /\ pc' = r.pc
       /\ steps' = steps + 1
    \/ /\ pc = "running"
       /\ queue = <<>>
       /\ events' = Append(events, CompleteEvent(FALSE, NoPath))
       /\ pc' = "failure"
       /\ UNCHANGED <<queue, visited, steps>>

TwoRunsStep ==
    /\ Run1Step
    /\ Run2Step
    /\ UNCHANGED <<grid, start, end, simulation, isRunning, tspVars, clientVars>>

NextTwoRuns == TwoRunsStep

SpecTwoRuns == InitTwoRuns /\ [][NextTwoRuns]_vars

-----------------------------------------------------------------------------
(* Specification of one TSP run: request, engine, client *)

InitTSP == MazeIdle /\ Run2Idle /\ TspInit /\ ClientIdle

\* while the frontier is not empty: one iteration, its events applied by the client
TspStep ==
    /\ tspPc = "running"
    /\ frontier # <<>>
    /\ LET r == TspIteration(cities, frontier, best, tspEvents)
           new == SubSeq(r.events, Len(tspEvents) + 1, Len(r.events))
       IN  /\ frontier' = r.frontier
           /\ best' = r.best
           /\ tspEvents' = r.events
           /\ app' = TspDispatch(app, new, 1)
    /\ UNCHANGED <<cities, tspPc, mazeVars, run2Vars, clientVars>>

\* the frontier is empty: the terminal done event
TspDone ==
    /\ tspPc = "running"
    /\ frontier = <<>>
    /\ LET e == DoneStep(best.distance, best.route)
       IN  /\ tspEvents' = Append(tspEvents, e)
           /\ app' = TspHandle(app, e)
    /\ tspPc' = "done"
    /\ UNCHANGED <<cities, frontier, best, mazeVars, run2Vars, clientVars>>

NextTSP == TspStep \/ TspDone

SpecTSP == InitTSP /\ [][NextTSP]_vars

-----------------------------------------------------------------------------
(* Both engines: a run is a maze run or a TSP run *)

InitEngines == Init \/ InitTSP

NextEngines == MazeStep \/ MazeExhausted \/ TspStep \/ TspDone

SpecEngines == InitEngines /\ [][NextEngines]_vars

-----------------------------------------------------------------------------
(* Specification of a consumer: runs of runBFS, reset, the transport *)

\* the engines are not part of a consumer's steps
engineVars == <<grid, start, end, queue, visited, events, steps, pc, run2Vars,
                cities, frontier, best, tspEvents, tspPc>>

Display == [simulation |-> simulation, isRunning |-> isRunning, app |-> app]

DisplayRunning == IF client = "tsp" THEN app.isRunning ELSE isRunning

DisplayError == IF client = "tsp" THEN app.error ELSE simulation.error

SetDisplay(d) ==
    /\ simulation' = d.simulation
    /\ isRunning' = d.isRunning
    /\ app' = d.app

\* the run awaits fetch or reader.read(): aborting its controller rejects
\* the awaited promise
Awaiting(r) == run[r].pc \in {"fetch", "read"}

\* controller.abort() on the controller of run r
Aborted(rs, r) ==
    IF r = 0 THEN rs
    ELSE [rs EXCEPT ![r].aborted = TRUE,
                    ![r].pc = IF rs[r].pc \in {"fetch", "read"} THEN "aborted" ELSE @]

\* the first Run click has been handled: runBFS is at its fetch
InitClient ==
    /\ MazeEngineIdle
    /\ Run2Idle
    /\ TspEngineIdle
    /\ client \in Clients
    /\ response \in Responses(client)
    /\ run = [r \in Runs |-> IF r = 1 THEN StartedRun ELSE IdleRun]
    /\ current = 1
    /\ clientGrid = createEmptyGrid
    /\ LET idle == [simulation |-> getInitialSimulationState, isRunning |-> FALSE,
                    app |-> [isRunning |-> FALSE, activePath |-> <<>>, bestRoute |-> <<>>,
                             bestDistance |-> Null, error |-> "", treeRoot |-> NoTree]]
           d == StartDisplay(client, idle)
       IN  /\ simulation = d.simulation
           /\ isRunning = d.isRunning
           /\ app = d.app

\* the Reset button: the current controller is aborted, the state reset;
\* the aborted run, if it awaits, then leaves through its catch
Reset ==
    LET d1 == ResetDisplay(client, Display)
        d2 == IF current # 0 /\ Awaiting(current) THEN Settle(client, d1, "abort") ELSE d1
    IN  /\ run' = Aborted(run, current)
        /\ SetDisplay(d2)
        /\ UNCHANGED <<client, response, current, clientGrid, engineVars>>

\* the Run button (disabled while isRunning): a second invocation of runBFS
RunAgain ==
    /\ ~DisplayRunning
    /\ run[2].pc = "idle"
    /\ LET old == IF client = "tsp" THEN current ELSE 0
           d1 == IF client = "tsp" THEN ResetDisplay(client, Display) ELSE Display
           d2 == StartDisplay(client, d1)
           d3 == IF old # 0 /\ Awaiting(old) THEN Settle(client, d2, "abort") ELSE d2
       IN  /\ run' = [Aborted(run, old) EXCEPT ![2] = StartedRun]
           /\ SetDisplay(d3)
    /\ current' = 2
    /\ UNCHANGED <<client, response, clientGrid, engineVars>>

\* await fetch(...) settles: a response, a response that is not ok, or a rejection
FetchSettles(r) ==
    /\ run[r].pc = "fetch"
    /\ IF response.status = "ok"
       THEN /\ run' = [run EXCEPT ![r].pc = "read"]
            /\ UNCHANGED <<simulation, isRunning, app>>
       ELSE /\ run' = [run EXCEPT ![r].pc = "failed"]
            /\ SetDisplay(Settle(client, Display, "error"))
    /\ UNCHANGED <<client, response, current, clientGrid, engineVars>>

\* await reader.read() yields a chunk of n characters
ReadChunk(r) ==
    /\ run[r].pc = "read"
    /\ \E n \in 1 .. MaxChunk :
         LET text == Serialize(response.lines, 1)
             chunk == SubSeq(text, run[r].pos + 1, run[r].pos + n)
             sp == Split(run[r].buffer \o chunk, 1, <<>>, <<>>)
             acc == ProcessLines(client, response.lines, sp.lines, 1,
                                 [d |-> Display, seen |-> run[r].seen,
                                  pc |-> "read", pending |-> <<>>])
         IN  /\ run[r].pos + n <= Len(text)
             /\ run' = [run EXCEPT ![r].pos = @ + n,
                                   ![r].buffer = sp.buffer,
                                   ![r].seen = acc.seen,
                                   ![r].pc = acc.pc,
                                   ![r].pending = acc.pending]
             /\ SetDisplay(acc.d)
    /\ UNCHANGED <<client, response, current, clientGrid, engineVars>>

\* await reader.read() at the end of the body: done, or the connection breaks
ReadEnd(r) ==
    /\ run[r].pc = "read"
    /\ run[r].pos = Len(Serialize(response.lines, 1))
    /\ IF response.end = "close"
       THEN /\ run' = [run EXCEPT ![r].pc = "closed"]
            /\ SetDisplay(Settle(client, Display, "end"))
       ELSE /\ run' = [run EXCEPT ![r].pc = "failed"]
            /\ SetDisplay(Settle(client, Display, "error"))
    /\ UNCHANGED <<client, response, current, clientGrid, engineVars>>

\* mutant: after the pacing delay the loop goes on without looking at the
\* controller
DelayElapsesNoAbortCheck(r) ==
    /\ run[r].pc = "delay"
    /\ LET acc == ProcessLines(client, response.lines, run[r].pending, 1,
                               [d |-> Display, seen |-> run[r].seen,
                                pc |-> "read", pending |-> <<>>])
       IN  /\ run' = [run EXCEPT ![r].seen = acc.seen,
                                 ![r].pc = acc.pc,
                                 ![r].pending = acc.pending]
           /\ SetDisplay(acc.d)
    /\ UNCHANGED <<client, response, current, clientGrid, engineVars>>

\* the pacing delay of the maze client has elapsed
DelayElapses(r) ==
    /\ run[r].pc = "delay"
    /\ IF run[r].aborted
       THEN /\ run' = [run EXCEPT ![r].pc = "aborted", ![r].pending = <<>>]
            /\ SetDisplay(Settle(client, Display, "abort"))
       ELSE LET acc == ProcessLines(client, response.lines, run[r].pending, 1,
                                    [d |-> Display, seen |-> run[r].seen,
                                     pc |-> "read", pending |-> <<>>])
            IN  /\ run' = [run EXCEPT ![r].seen = acc.seen,
                                      ![r].pc = acc.pc,
                                      ![r].pending = acc.pending]
                /\ SetDisplay(acc.d)
    /\ UNCHANGED <<client, response, current, clientGrid, engineVars>>

NextClient ==
    \/ Reset
    \/ RunAgain
    \/ \E r \in Runs : FetchSettles(r)
    \/ \E r \in Runs : ReadChunk(r)
    \/ \E r \in Runs : ReadEnd(r)
    \/ \E r \in Runs : DelayElapses(r)

SpecClient == InitClient /\ [][NextClient]_vars

-----------------------------------------------------------------------------
(* Specification of the maze client's grid editor: cell clicks, Clear Walls,
   Randomize, Reset and Run, the run's events applied as they are emitted *)

\* mutant: a cell stays clickable while a run is in progress
CellDisabledNotWhileRunning(p) == p = START_POS \/ p = END_POS

\* MazeView: disabled={isRunning || isStart || isEnd}
CellDisabled(p) == isRunning \/ p = START_POS \/ p = END_POS

\* the run of the engine that the controller just aborted is dropped
DropRun ==
    /\ queue' = <<>>
    /\ visited' = {}
    /\ events' = <<>>
    /\ steps' = 0
    /\ pc' = "idle"
    /\ UNCHANGED <<grid, start, end>>

\* resetSimulation: abort, setIsRunning(false), the initial simulation state
resetSimulation ==
    /\ DropRun
    /\ isRunning' = FALSE
    /\ simulation' = getInitialSimulationState

\* MazeSimulator mounted: an empty grid, nothing running
InitEdit ==
    /\ grid = createEmptyGrid
    /\ start = START_POS
    /\ end = END_POS
    /\ queue = <<>>
    /\ visited = {}
    /\ events = <<>>
    /\ steps = 0
    /\ pc = "idle"
    /\ simulation = getInitialSimulationState
    /\ isRunning = FALSE
    /\ Run2Idle
    /\ TspIdle
    /\ client = "maze"
    /\ response = [status |-> "none", lines |-> <<>>, end |-> "close"]
    /\ run = [r \in Runs |-> IdleRun]
    /\ current = 0
    /\ clientGrid = createEmptyGrid

\* a click on cell p (the editor keeps at most MaxWalls walls)
ToggleWall(p) ==
    /\ ~CellDisabled(p)
    /\ toggleWall(clientGrid, p) \in Grids
    /\ clientGrid' = toggleWall(clientGrid, p)
    /\ UNCHANGED <<mazeVars, run2Vars, tspVars, client, response, run, current>>

\* the Clear Walls button (disabled while isRunning): resetSimulation(true)
ClearWalls ==
    /\ ~isRunning
    /\ resetSimulation
    /\ clientGrid' = createEmptyGrid
    /\ UNCHANGED <<run2Vars, tspVars, client, response, run, current>>

\* the Randomize button (disabled while isRunning): handleRandomize
Randomize ==
    /\ ~isRunning
    /\ resetSimulation
    /\ clientGrid' \in createRandomGrid
    /\ UNCHANGED <<run2Vars, tspVars, client, response, run, current>>

\* the Reset button: resetSimulation(false)
ResetClick ==
    /\ resetSimulation
    /\ UNCHANGED <<run2Vars, tspVars, clientVars>>

\* the Run BFS button (disabled while isRunning): runBFS posts the grid with
\* START_POS and END_POS, and the engine starts on that request
RunClick ==
    /\ ~isRunning
    /\ isRunning' = TRUE
    /\ simulation' = [getInitialSimulationState EXCEPT !.status = "running"]
    /\ grid' = clientGrid
    /\ start' = START_POS
    /\ end' = END_POS
    /\ queue' = <<<<START_POS>>>>
    /\ visited' = {START_POS}
    /\ events' = <<>>
    /\ steps' = 0
    /\ pc' = "running"
    /\ UNCHANGED <<run2Vars, tspVars, clientVars>>

\* END_POS is next to START_POS on the model's grid, so the queue of a run
\* started here never empties: every run ends with MazeStep reaching end
NextEdit ==
    \/ \E p \in Cells : ToggleWall(p)
    \/ ClearWalls
    \/ Randomize
    \/ ResetClick
    \/ RunClick
    \/ MazeStep

SpecEdit == InitEdit /\ [][NextEdit]_vars

-----------------------------------------------------------------------------
(* Independent shortest-path computation: breadth-first layers of cells *)

Adjacent(p, q) == Abs(p[1] - q[1]) + Abs(p[2] - q[2]) = 1

Open(g) == {p \in Cells : g[p] = 0}

\* number of cells of a shortest path from a cell of front to e that
\* enters only cells of free; 0 when there is none
RECURSIVE Layers(_, _, _, _, _)
Layers(free, front, seen, e, n) ==
    IF e \in front THEN n
    ELSE IF front = {} THEN 0
    ELSE LET nxt == {q \in free \ seen : \E p \in front : Adjacent(p, q)}
         IN  Layers(free, nxt, seen \cup nxt, e, n + 1)

\* shortest path from s to e whose cells after s are open
ShortestFrom(g, s, e) == Layers(Open(g), {s}, {s}, e, 1)

\* shortest path from s to e all of whose cells are open
ShortestOpen(g, s, e) == IF g[s] = 1 THEN 0 ELSE ShortestFrom(g, s, e)

NoRepeat(P) == \A i, j \in 1 .. Len(P) : i # j => P[i] # P[j]

UnitSteps(P) == \A i \in 1 .. Len(P) - 1 : Adjacent(P[i], P[i + 1])

AllOpen(g, P) == \A i \in 1 .. Len(P) : g[P[i]] = 0

TerminalEvents(evs) == {i \in 1 .. Len(evs) : evs[i].type \in {"complete", "done"}}

-----------------------------------------------------------------------------
(* Independent minimum tour: exhaustive enumeration of the cycles through 0 *)

\* the visiting orders of n cities that begin with city 0
Tours(n) ==
    {f \in [1 .. n -> 0 .. n - 1] :
        f[1] = 0 /\ \A i, j \in 1 .. n : i # j => f[i] # f[j]}

\* length of the cycle f[1], ..., f[n], f[1]
RECURSIVE CycleLength(_, _, _)
CycleLength(cs, f, i) ==
    IF i > Len(f) THEN 0
    ELSE getDistance(CityOf(cs, f[i]), CityOf(cs, f[(i % Len(f)) + 1]))
         + CycleLength(cs, f, i + 1)

MinOf(S) == IF S = {} THEN Null ELSE CHOOSE m \in S : \A x \in S : m <= x

MinTour(cs) == MinOf({CycleLength(cs, f, 1) : f \in Tours(Len(cs))})

\* the total distances of the tours completed by the first i events
LeafTotals(i) ==
    {TotalDistance(cities, tspEvents[k].route) :
        k \in {j \in 1 .. i : tspEvents[j].type = "leaf"}}

BestLeaves == {i \in 1 .. Len(tspEvents) : tspEvents[i].type = "leaf" /\ tspEvents[i].isBest}

\* the indices of the events of a type
EventsOfType(evs, t) == {i \in 1 .. Len(evs) : evs[i].type = t}

\* the first leaf among the first i events whose total is the least so far
\* (0 when no tour is complete yet)
FirstMinLeaf(i) ==
    LET L == {k \in 1 .. i : tspEvents[k].type = "leaf"}
        m == MinOf(LeafTotals(i))
        M == {k \in L : TotalDistance(cities, tspEvents[k].route) = m}
    IN  IF L = {} THEN 0 ELSE CHOOSE k \in M : \A j \in M : k <= j

\* R is a route of distinct cities among n that begins with city 0
IsPartialRoute(R, n) ==
    /\ Len(R) \in 1 .. n
    /\ R[1] = 0
    /\ \A i \in 1 .. Len(R) : R[i] \in 0 .. n - 1
    /\ \A i, j \in 1 .. Len(R) : i # j => R[i] # R[j]

\* every route of distinct cities that begins with city 0, of length lo .. hi
PartialRoutes(n, lo, hi) ==
    UNION {{f \in [1 .. k -> 0 .. n - 1] :
               f[1] = 0 /\ \A i, j \in 1 .. k : i # j => f[i] # f[j]} : k \in lo .. hi}

RECURSIVE Factorial(_)
Factorial(n) == IF n <= 1 THEN 1 ELSE n * Factorial(n - 1)

\* the last event of type t before index i (0 when there is none)
LastBefore(evs, t, i) ==
    LET S == {j \in 1 .. i - 1 : evs[j].type = t}
    IN  IF S = {} THEN 0 ELSE CHOOSE j \in S : \A k \in S : k <= j

-----------------------------------------------------------------------------
(* Claims *)

\* C1: if the maze BFS ends with success and path P, then P goes from start
\* to end, repeats no cell, moves by unit grid steps, every cell of P is open
\* and no shorter path of open cells from start to end exists.
C1_SuccessPathShortestOpen ==
    pc = "success" =>
        LET P == simulation.solutionPath
        IN  /\ P = Last(events).path
            /\ Len(P) >= 1 /\ P[1] = start /\ Last(P) = end
            /\ NoRepeat(P) /\ UnitSteps(P)
            /\ AllOpen(grid, P)
            /\ (ShortestOpen(grid, start, end) = 0
                \/ Len(P) <= ShortestOpen(grid, start, end))

\* C1, for the requests whose start cell is open: the path is a shortest
\* path of open cells.
C1_ShortestWhenStartOpen ==
    (pc = "success" /\ grid[start] = 0) =>
        LET P == simulation.solutionPath
        IN  /\ P = Last(events).path
            /\ Len(P) >= 1 /\ P[1] = start /\ Last(P) = end
            /\ NoRepeat(P) /\ UnitSteps(P)
            /\ AllOpen(grid, P)
            /\ Len(P) = ShortestOpen(grid, start, end)

\* C2: the run reaches a terminal outcome after at most rows x cols dequeue
\* steps: the number of dequeues never exceeds rows x cols, and every step
\* of a run either dequeues one more path or ends the run with its outcome
\* (end dequeued: success; frontier empty: failure).
C2_TerminatesWithinCells ==
    /\ [](steps <= rows * cols)
    /\ [][/\ pc = "running"
          /\ \/ steps' = steps + 1 /\ pc' \in {"running", "success"}
             \/ steps' = steps /\ queue = <<>> /\ pc' = "failure"
          /\ pc' = "success" => Last(Head(queue)) = end]_vars

\* every cell of the grid was dequeued, end being the last one
C2_Witness ==
    /\ pc = "success"
    /\ steps = rows * cols

\* C3: a maze run and a TSP run emit exactly one terminal event
\* (complete / done) and it is the last event: while the run goes on no
\* terminal event has been emitted, once it is over the terminal event is the
\* last of the stream and the only one, and the client has left the running
\* state.
C3_OneTerminalEventLast ==
    /\ TerminalEvents(events) \subseteq {Len(events)}
    /\ pc \in {"success", "failure"} <=> TerminalEvents(events) # {}
    /\ pc \in {"success", "failure"} =>
          /\ Last(events).type = "complete"
          /\ Last(events).success = (pc = "success")
          /\ ~isRunning
    /\ TerminalEvents(tspEvents) \subseteq {Len(tspEvents)}
    /\ tspPc = "done" <=> TerminalEvents(tspEvents) # {}
    /\ tspPc = "done" => Last(tspEvents).type = "done" /\ ~app.isRunning

\* the maze run has found end with other paths still in the queue
C3_Witness ==
    /\ pc = "success"
    /\ queue # <<>>
    /\ Len(events) >= 5

\* C4: when end cannot be reached from start through open cells, the run
\* never succeeds, and once over it has emptied the frontier, its last event is
\* the terminal failure event and the client's solution path is empty.
C4_UnreachableFails ==
    ShortestFrom(grid, start, end) = 0 =>
        /\ pc # "success"
        /\ pc = "failure" =>
              /\ queue = <<>>
              /\ Last(events) = CompleteEvent(FALSE, NoPath)
              /\ simulation.status = "failure"
              /\ simulation.solutionPath = <<>>
              /\ ~isRunning

\* a complete wall row between start and end, and the run is over
C4_Witness ==
    /\ pc = "failure"
    /\ \E r \in 1 .. rows - 2 :
          /\ \A c \in 0 .. cols - 1 : grid[<<r, c>>] = 1
          /\ start[1] < r /\ r < end[1]
    /\ steps > 1

\* C5: a cell is visited at most once in a run: it is the last cell of at
\* most one dequeued (visit) path, the new cell of at most one expansion
\* event, it occurs at most once in any emitted path, and the client has
\* marked exactly the cells of the visit events.
C5_EachCellVisitedOnce ==
    /\ \A i, j \in 1 .. Len(events) :
          (i # j /\ events[i].type = events[j].type) =>
             /\ events[i].type = "visit" => Last(events[i].path) # Last(events[j].path)
             /\ events[i].type = "expand" => events[i].cell # events[j].cell
    /\ \A i \in 1 .. Len(events) :
          /\ NoRepeat(events[i].path)
          /\ events[i].type = "expand" =>
                /\ events[i].cell # start
                /\ \A k \in 1 .. Len(events[i].path) : events[i].path[k] # events[i].cell
    /\ simulation.visitedCells =
          {Last(events[i].path) : i \in {k \in 1 .. Len(events) : events[k].type = "visit"}}
    /\ Cardinality(simulation.visitedCells) = steps

\* a run over a grid with a cycle of open cells, all of them dequeued
C5_Witness ==
    /\ Walls(grid) = {}
    /\ pc = "failure" \/ pc = "success"
    /\ steps = rows * cols

C7_StartIsEnd ==
    start = end =>
        \/ steps = 0 /\ pc = "running" /\ events = <<>>
        \/ /\ steps = 1 /\ pc = "success"
           /\ events = <<VisitEvent(<<start>>), CompleteEvent(TRUE, <<start>>)>>
           /\ simulation.solutionPath = <<start>>
           /\ simulation.status = "success"

C7_Witness == start = end /\ pc = "success" /\ grid[start] = 0

\* C8: if the start cell or the end cell is a wall the run reports no path
\* found, and the wall cell is never explored.
C8_WallStartOrEndFails ==
    (grid[start] = 1 \/ grid[end] = 1) =>
        /\ pc # "success"
        /\ \A i \in 1 .. Len(events) :
              events[i].type = "visit" => grid[Last(events[i].path)] = 0

\* C8, the part the neighbor check gives: a wall cell other than start is
\* never enqueued, so a wall end that is not the start is never reached.
C8_WallEndNeverReached ==
    /\ \A p \in visited : p = start \/ grid[p] = 0
    /\ (grid[end] = 1 /\ end # start) => pc # "success"

\* C9: the best tour reported at done has the minimum total cyclic distance
\* over all Hamiltonian cycles through city 0 (exhaustive enumeration): the
\* done event's best distance and route, and the best route and distance the
\* client displays.
C9_BestTourIsMinimum ==
    tspPc = "done" =>
        LET d == Last(tspEvents)
            m == MinTour(cities)
        IN  /\ d.type = "done"
            /\ d.bestDistance = m
            /\ d.bestRoute \in Tours(Len(cities))
            /\ CycleLength(cities, d.bestRoute, 1) = m
            /\ app.bestDistance = m
            /\ app.bestRoute = Append(d.bestRoute, 0)
            /\ RouteDistance(cities, app.bestRoute, 1) = m

\* the run is over and the first completed tour was not a shortest one
C9_Witness ==
    /\ tspPc = "done"
    /\ Len(cities) >= 4
    /\ Cardinality(BestLeaves) >= 2
    /\ app.bestDistance = MinTour(cities)

\* C10: each bestDistance emitted is at most every bestDistance emitted
\* earlier, and equals the minimum total distance of the tours completed so
\* far (none before the first leaf); the client's bestDistance follows it.
C10_BestDistanceMonotone ==
    /\ \A i \in 1 .. Len(tspEvents) :
          tspEvents[i].bestDistance = MinOf(LeafTotals(i))
    /\ \A i, j \in 1 .. Len(tspEvents) :
          (i < j /\ tspEvents[i].bestDistance # Null) =>
             /\ tspEvents[j].bestDistance # Null
             /\ tspEvents[j].bestDistance <= tspEvents[i].bestDistance
    /\ app.bestDistance = MinOf(LeafTotals(Len(tspEvents)))

\* the best distance has improved three times in the run
C10_Witness ==
    /\ tspPc = "done"
    /\ Cardinality(BestLeaves) >= 3

\* C11: the best tour is replaced only when a complete route has a total
\* strictly smaller than the best so far: a step that completes a tour marks
\* its leaf best exactly when the total is below the best distance (or there
\* is none yet) and only then replaces the best tour of the engine and of the
\* client; on a tie, and in every other step, the earlier tour stays.
C11_StrictImprovementOnly ==
    /\ [](app.bestRoute = IF best = NoBest THEN <<>> ELSE Append(best.route, 0))
    /\ [][LET new == {i \in Len(tspEvents) + 1 .. Len(tspEvents') :
                         tspEvents'[i].type = "leaf"}
          IN  /\ \A i \in new :
                    LET R == tspEvents'[i].route
                        total == TotalDistance(cities, R)
                        smaller == best.distance = Null \/ total < best.distance
                    IN  /\ tspEvents'[i].isBest <=> smaller
                        /\ smaller => best' = [distance |-> total, route |-> R]
                        /\ ~smaller => best' = best /\ app'.bestRoute = app.bestRoute
              /\ new = {} => best' = best /\ app'.bestRoute = app.bestRoute]_vars

\* a later tour has tied with the best one and was not marked best
C11_Witness ==
    /\ tspPc = "done"
    /\ \E i, j \in EventsOfType(tspEvents, "leaf") :
          /\ i < j
          /\ i = FirstMinLeaf(Len(tspEvents))
          /\ TotalDistance(cities, tspEvents[j].route) = best.distance
          /\ ~tspEvents[j].isBest
          /\ app.bestRoute = Append(tspEvents[i].route, 0)
          /\ app.bestRoute # Append(tspEvents[j].route, 0)

\* C12: with a single city the search dequeues [0] only, emits no expand
\* event, and ends with done and best distance 0 (engine and client).
C12_SingleCity ==
    Len(cities) = 1 =>
        /\ EventsOfType(tspEvents, "expand") = {}
        /\ Cardinality(EventsOfType(tspEvents, "processing")) <= 1
        /\ \A i \in 1 .. Len(tspEvents) : tspEvents[i].route \in {<<0>>, NoRoute}
        /\ tspPc = "done" =>
              /\ Len(tspEvents) = 3
              /\ Last(tspEvents) = DoneStep(0, <<0>>)
              /\ app.bestDistance = 0
              /\ app.bestRoute = <<0, 0>>
              /\ ~app.isRunning

C12_Witness == Len(cities) = 1 /\ tspPc = "done" /\ best.distance = 0

\* C13: the search builds the whole decision tree: no route is dequeued
\* twice or expanded twice, every expand event's route is its parent plus the
\* child city, and at done every route of distinct cities beginning with 0 was
\* dequeued once, every such route of length 2 .. n has its one expand event
\* and there are (n - 1)! leaf events.
C13_FullDecisionTree ==
    LET n == Len(cities)
        P == EventsOfType(tspEvents, "processing")
        E == EventsOfType(tspEvents, "expand")
        L == EventsOfType(tspEvents, "leaf")
    IN  /\ \A i, j \in P : i # j => tspEvents[i].route # tspEvents[j].route
        /\ \A i, j \in E : i # j => tspEvents[i].route # tspEvents[j].route
        /\ \A i \in E :
              tspEvents[i].route = Append(tspEvents[i].parentPath, tspEvents[i].childCity)
        /\ \A i \in P : IsPartialRoute(tspEvents[i].route, n)
        /\ tspPc = "done" =>
              /\ {tspEvents[i].route : i \in P} = PartialRoutes(n, 1, n)
              /\ {tspEvents[i].route : i \in E} = PartialRoutes(n, 2, n)
              /\ {tspEvents[i].route : i \in L} = PartialRoutes(n, n, n)
              /\ Cardinality(L) = Factorial(n - 1)

\* the tree of four cities is complete: 6 leaves, of which a later one improved
C13_Witness ==
    /\ tspPc = "done"
    /\ Len(cities) = 4
    /\ Cardinality(EventsOfType(tspEvents, "leaf")) = 6
    /\ Cardinality(EventsOfType(tspEvents, "expand")) = 15
    /\ Cardinality(BestLeaves) >= 2

\* C14: in both engines the expand events of a parent follow its
\* visit/processing event without interruption: the last visit (processing)
\* event before an expand event is the one of its parent, only expand events
\* lie between the two, and the parent is dequeued nowhere else.
C14_ExpandsFollowTheirParent ==
    /\ \A i \in EventsOfType(events, "expand") :
          LET j == LastBefore(events, "visit", i)
          IN  /\ j # 0
              /\ events[j].path = events[i].path
              /\ \A k \in j + 1 .. i - 1 : events[k].type = "expand"
              /\ \A k \in EventsOfType(events, "visit") :
                    events[k].path = events[i].path => k = j
    /\ \A i \in EventsOfType(tspEvents, "expand") :
          LET j == LastBefore(tspEvents, "processing", i)
          IN  /\ j # 0
              /\ tspEvents[j].route = tspEvents[i].parentPath
              /\ \A k \in j + 1 .. i - 1 : tspEvents[k].type = "expand"
              /\ \A k \in EventsOfType(tspEvents, "processing") :
                    tspEvents[k].route = tspEvents[i].parentPath => k = j

\* a maze run in which a path with two expansions was followed by a path
\* with an expansion of its own
C14_Witness ==
    /\ pc \in {"success", "failure"}
    /\ \E i \in 1 .. Len(events) - 4 :
          /\ events[i].type = "visit"
          /\ events[i + 1].type = "expand" /\ events[i + 2].type = "expand"
          /\ events[i + 3].type = "visit"
          /\ events[i + 4].type = "expand"
          /\ events[i + 4].path = events[i + 3].path

-----------------------------------------------------------------------------
(* Claims about the consumers *)

\* the events a consumer is to dispatch from the first m lines of a response,
\* whatever the chunks: the well-formed lines in order (the TSP consumer), the
\* well-formed lines before the first malformed one (the maze consumers)
RECURSIVE ExpectedEvents(_, _, _, _)
ExpectedEvents(c, lines, k, m) ==
    IF k > m THEN <<>>
    ELSE IF lines[k].bad
         THEN IF c = "tsp" THEN ExpectedEvents(c, lines, k + 1, m) ELSE <<>>
         ELSE <<lines[k].event>> \o ExpectedEvents(c, lines, k + 1, m)

\* the number of lines whose newline is among the first n characters
CompleteLines(n) == n \div 3

\* the lines of a pending list: their numbers in the response
PendingFrom(r) == CompleteLines(run[r].pos) - Len(run[r].pending) + 1

IsPrefix(a, b) == Len(a) <= Len(b) /\ a = SubSeq(b, 1, Len(a))

\* C15: whatever the chunks, a run has dispatched exactly the events of the
\* complete lines received so far, in order and once each (those left for
\* after a pacing delay still to come), and its buffer holds the characters
\* received after the last newline; a run that read the whole body has
\* dispatched the same sequence for every splitting.
C15_ChunkingIndependent ==
    \A r \in Runs :
        LET m == CompleteLines(run[r].pos)
            text == Serialize(response.lines, 1)
        IN  run[r].pc # "idle" =>
               /\ run[r].buffer = SubSeq(text, 3 * m + 1, run[r].pos)
               /\ run[r].pc \in {"read", "closed", "delay"} /\ ~run[r].aborted =>
                     /\ IsPrefix(run[r].seen, ExpectedEvents(client, response.lines, 1, m))
                     /\ ExpectedEvents(client, response.lines, 1, m) =
                           run[r].seen \o ExpectedEvents(client, response.lines, PendingFrom(r), m)
                     /\ run[r].pc # "delay" =>
                           run[r].seen = ExpectedEvents(client, response.lines, 1, m)
               /\ IsPrefix(run[r].seen, ExpectedEvents(client, response.lines, 1, m))

\* a run holds half a line in its buffer after having dispatched two events,
\* and another has read a whole body of five lines
C15_Witness ==
    /\ run[2].pc = "read"
    /\ Len(run[2].buffer) = 1
    /\ Len(run[2].seen) >= 2
    /\ run[1].pc = "closed"
    /\ Len(run[1].seen) >= 5

\* C16: a malformed line is skipped and is not fatal: a run that goes on
\* reading has dispatched every well-formed line received, those after a
\* malformed line included, and a response whose transport did not fail
\* makes no run fail and sets no connectivity error.
C16_MalformedLineSkipped ==
    /\ \A r \in Runs :
          (run[r].pc \in {"read", "closed"} /\ ~run[r].aborted) =>
             run[r].seen = ExpectedEvents("tsp", response.lines, 1, CompleteLines(run[r].pos))
    /\ (response.status = "ok" /\ response.end = "close") =>
          /\ DisplayError = ""
          /\ \A r \in Runs : run[r].pc # "failed"

\* C16, the TSP consumer: its per-line try/catch skips the malformed line.
C16_TspSkipsMalformed ==
    client = "tsp" =>
        /\ \A r \in Runs :
              (run[r].pc \in {"read", "closed"} /\ ~run[r].aborted) =>
                 run[r].seen = ExpectedEvents("tsp", response.lines, 1, CompleteLines(run[r].pos))
        /\ (response.status = "ok" /\ response.end = "close") =>
              /\ DisplayError = ""
              /\ \A r \in Runs : run[r].pc # "failed"

\* the TSP consumer has dispatched the lines that follow a malformed line
C16_TspWitness ==
    /\ client = "tsp"
    /\ response.status = "ok"
    /\ response.lines # <<>>
    /\ response.lines[1].bad
    /\ run[1].pc = "closed"
    /\ Len(run[1].seen) >= 4

\* the displayed state without its error and running flags
Shown(sim, a) ==
    [activePath |-> sim.activePath, solutionPath |-> sim.solutionPath,
     visitedCells |-> sim.visitedCells, status |-> sim.status,
     tspActivePath |-> a.activePath, bestRoute |-> a.bestRoute,
     bestDistance |-> a.bestDistance]

\* C17: a response that is not ok or a connection failure ends the run with
\* the one connectivity error: in that step the error message is set, the
\* client leaves the running state and nothing else of the displayed state
\* changes; a response that is not ok has no event dispatched at all; the
\* error is set by nothing but a failed run, and a step that aborts a run
\* (reset) sets no error.
C17_SingleConnectivityError ==
    /\ [](/\ response.status # "ok" => \A r \in Runs : run[r].seen = <<>>
          /\ DisplayError \in {"", ConnectionError(client)}
          /\ DisplayError # "" => \E r \in Runs : run[r].pc = "failed")
    /\ [][/\ \A r \in Runs :
               (/\ run[r].pc \in {"fetch", "read"}
                /\ run'[r].pc = "failed"
                /\ run'[r].pos = run[r].pos) =>
                  /\ DisplayError' = ConnectionError(client)
                  /\ ~DisplayRunning'
                  /\ Shown(simulation', app') = Shown(simulation, app)
          /\ (\E r \in Runs : run'[r].aborted /\ ~run[r].aborted) => DisplayError' = ""
          /\ (\E r \in Runs : run'[r].pc = "aborted" /\ run[r].pc # "aborted") =>
                DisplayError' \in {"", DisplayError}]_vars

\* a run was refused with a non-2xx status and the error is displayed
C17_Witness ==
    /\ response.status = "http"
    /\ run[1].pc = "failed"
    /\ DisplayError = ConnectionError(client)
    /\ ~DisplayRunning
    /\ current = 1 /\ ~run[1].aborted

\* the events of a run applied in order to the state runBFS starts from
RECURSIVE Replay(_, _, _, _)
Replay(c, d, evs, i) ==
    IF i > Len(evs) THEN d
    ELSE Replay(c, Handle(c, d, evs[i]), evs, i + 1)

\* run r is the current run and is still going on
Alive(r) == current = r /\ ~run[r].aborted /\ run[r].pc \in {"fetch", "read", "delay"}

\* C18: a second run is not touched by the first: while the second run goes
\* on, the displayed state (isRunning, active path, visited cells, best route,
\* status, error) is what the second run's own events make of the state its
\* runBFS started from.
C18_RunsDoNotInterfere ==
    Alive(2) => Display = Replay(client, StartDisplay(client, Display), run[2].seen, 1)

\* C18, the maze client with a transport that does not break: its first run
\* has no handler left that writes once a second run can start.
C18_MazeIsolatedWhenTransportHolds ==
    (client = "maze" /\ response.end = "close" /\ Alive(2)) =>
        Display = Replay(client, StartDisplay(client, Display), run[2].seen, 1)

\* the second run of the maze client has dispatched events of its own
C18_MazeWitness ==
    /\ client = "maze" /\ response.end = "close"
    /\ Alive(2)
    /\ Len(run[2].seen) >= 2
    /\ run[1].pc = "read"

C20_InputErrorNoEvent ==
    (grid[start] = 1 \/ grid[end] = 1) =>
        /\ events = <<>>
        /\ pc # "success"

-----------------------------------------------------------------------------
(* Claims about the maze engine's frontier, visited set and paths *)

\* the 3 x 3 grid without walls
Open3x3 == [p \in (0 .. 2) \X (0 .. 2) |-> 0]

\* the events of the run on the 3 x 3 grid from (0,0) to (2,2)
Scenario3x3 == MazeRun(Open3x3, <<2, 2>>, <<<<<<0, 0>>>>>>, {<<0, 0>>}, <<>>)

\* along the first row to the last column, then down the last column
RowFirstPath ==
    [i \in 1 .. rows + cols - 1 |->
        IF i <= cols THEN <<0, i - 1>> ELSE <<i - cols, cols - 1>>]

\* C21: on a grid without walls the run never fails, and when it succeeds the
\* path has Manhattan distance + 1 cells; from the first to the last corner the
\* direction order up, right, down, left gives the path along the first row
\* and down the last column; on the 3 x 3 grid from (0,0) to (2,2) the run
\* succeeds with the 5 cells (0,0), (0,1), (0,2), (1,2), (2,2), which the
\* client takes as its solution path.
C21_OpenGridManhattan ==
    /\ Walls(grid) = {} =>
          /\ pc # "failure"
          /\ pc = "success" =>
                /\ Len(simulation.solutionPath) =
                      Abs(start[1] - end[1]) + Abs(start[2] - end[2]) + 1
                /\ Last(events) = CompleteEvent(TRUE, simulation.solutionPath)
                /\ (start = <<0, 0>> /\ end = <<rows - 1, cols - 1>>) =>
                      simulation.solutionPath = RowFirstPath
    /\ Last(Scenario3x3) =
          CompleteEvent(TRUE, <<<<0, 0>>, <<0, 1>>, <<0, 2>>, <<1, 2>>, <<2, 2>>>>)
    /\ Dispatch([simulation |-> getInitialSimulationState, isRunning |-> TRUE],
                Scenario3x3, 1).simulation.solutionPath =
          <<<<0, 0>>, <<0, 1>>, <<0, 2>>, <<1, 2>>, <<2, 2>>>>

\* the run from the first corner to the last one of the open grid is over
C21_Witness ==
    /\ Walls(grid) = {}
    /\ start = <<0, 0>>
    /\ end = <<rows - 1, cols - 1>>
    /\ pc = "success"
    /\ Len(simulation.solutionPath) = rows + cols - 1

\* C22: the paths of the queue are in non-decreasing order of length and
\* their lengths differ by at most 1; the paths are dequeued in non-decreasing
\* order of length, and no queued path is shorter than a dequeued one.
C22_QueueLevels ==
    /\ \A i, j \in 1 .. Len(queue) : i < j => Len(queue[i]) <= Len(queue[j])
    /\ queue # <<>> => Len(Last(queue)) - Len(Head(queue)) <= 1
    /\ \A i, j \in EventsOfType(events, "visit") :
          i < j => Len(events[i].path) <= Len(events[j].path)
    /\ \A i \in EventsOfType(events, "visit") :
          \A k \in 1 .. Len(queue) : Len(events[i].path) <= Len(queue[k])

\* the queue holds paths of two levels, after paths of two levels were dequeued
C22_Witness ==
    /\ pc = "running"
    /\ Len(queue) >= 2
    /\ Len(Last(queue)) = Len(Head(queue)) + 1
    /\ Len(Head(queue)) >= 3

\* the paths ever put into the queue: [start] and one per expansion event
Enqueued ==
    {<<start>>} \cup {Append(events[i].path, events[i].cell) : i \in EventsOfType(events, "expand")}

\* C23: the visited set only grows, by exactly the new cells of the
\* expansions of a step; it is start plus the last cells of the enqueued
\* paths, no two of which end in the same cell; and every position added by an
\* expansion is inside the grid and open.
C23_VisitedGrowsOnce ==
    /\ [](/\ visited = {Last(P) : P \in Enqueued}
          /\ Cardinality(visited) = 1 + Cardinality(EventsOfType(events, "expand"))
          /\ \A P, Q \in Enqueued : Last(P) = Last(Q) => P = Q
          /\ \A k \in 1 .. Len(queue) : queue[k] \in Enqueued
          /\ \A i \in EventsOfType(events, "expand") :
                events[i].cell \in Cells /\ grid[events[i].cell] = 0)
    /\ [][/\ visited \subseteq visited'
          /\ visited' \ visited =
                {events'[i].cell : i \in {k \in Len(events) + 1 .. Len(events') :
                                             events'[k].type = "expand"}}]_vars

\* every open cell of a grid with walls has entered the visited set
C23_Witness ==
    /\ pc = "failure"
    /\ Walls(grid) # {}
    /\ grid[start] = 0
    /\ visited = Cells \ Walls(grid)
    /\ Cardinality(visited) >= 4

\* P begins at start, moves by unit steps and repeats no position
WellFormedPath(P) ==
    /\ Len(P) >= 1
    /\ P[1] = start
    /\ UnitSteps(P)
    /\ NoRepeat(P)

\* C24: every path of the queue and every path carried by an event (the
\* dequeued path of a visit, the parent and the extended path of an expansion,
\* the path of a success) begins at start, has consecutive positions one unit
\* step apart and contains no position twice.
C24_PathsWellFormed ==
    /\ \A k \in 1 .. Len(queue) : WellFormedPath(queue[k])
    /\ \A i \in 1 .. Len(events) :
          /\ events[i].path # NoPath => WellFormedPath(events[i].path)
          /\ events[i].type = "expand" =>
                WellFormedPath(Append(events[i].path, events[i].cell))
          /\ events[i].type \in {"visit", "expand"} => events[i].path # NoPath
          /\ (events[i].type = "complete" /\ events[i].success) => events[i].path # NoPath
    /\ simulation.activePath # <<>> => WellFormedPath(simulation.activePath)
    /\ simulation.solutionPath # <<>> => WellFormedPath(simulation.solutionPath)

\* a run around walls has found a path that turns
C24_Witness ==
    /\ pc = "success"
    /\ Walls(grid) # {}
    /\ Len(simulation.solutionPath) >= 5
    /\ start[1] # end[1]

-----------------------------------------------------------------------------
(* Claims about the maze client's grid editor *)

\* C25: after any sequence of cell clicks, Clear Walls, Randomize, Reset and
\* Run, the start cell and the end cell of the client's grid are open, and so
\* are the start and end cells of every request sent
C25_StartEndOpen ==
    /\ clientGrid[START_POS] = 0
    /\ clientGrid[END_POS] = 0
    /\ pc # "idle" => /\ start = START_POS
                      /\ end = END_POS
                      /\ grid[start] = 0
                      /\ grid[end] = 0

\* a request has been sent from a randomized grid that has walls
C25_Witness ==
    /\ pc \in {"running", "success", "failure"}
    /\ Walls(grid) # {}
    /\ Walls(clientGrid) # {}

\* C26: while isRunning is true the grid is unchanged: no step taken while a
\* run is in progress (a click, a button, an event of the stream) modifies it,
\* and the grid displayed is the grid sent in the request
C26_GridFrozenWhileRunning ==
    /\ [](isRunning => clientGrid = grid)
    /\ [][isRunning => clientGrid' = clientGrid]_vars

\* a run is in progress on a grid with walls and has applied events
C26_Witness ==
    /\ isRunning
    /\ Walls(clientGrid) # {}
    /\ Len(events) >= 2

-----------------------------------------------------------------------------
(* Claims about the maze client's protocol and its running state *)

\* the path of the last visit event of a list of events (empty when none)
LastVisitPath(evs) ==
    LET i == LastBefore(evs, "visit", Len(evs) + 1)
    IN  IF i = 0 THEN <<>> ELSE evs[i].path

\* C27: when a complete event with success true is applied, the solution
\* path becomes the path of the last visit event applied in the run, and that
\* path starts at the start cell and ends at the end cell; when success is
\* false the solution path is empty (and before complete it is empty too)
C27_SolutionIsLastVisit ==
    /\ pc = "success" =>
         /\ simulation.status = "success"
         /\ simulation.solutionPath = LastVisitPath(events)
         /\ simulation.solutionPath # <<>>
         /\ simulation.solutionPath[1] = start
         /\ Last(simulation.solutionPath) = end
    /\ pc = "failure" =>
         /\ simulation.status = "failure"
         /\ simulation.solutionPath = <<>>
         /\ LastVisitPath(events) # <<>>
    /\ pc = "running" => simulation.solutionPath = <<>>

\* a run has ended in success after several visit events, around a wall
C27_Witness ==
    /\ pc = "success"
    /\ Walls(grid) # {}
    /\ Cardinality(EventsOfType(events, "visit")) >= 3
    /\ Len(simulation.solutionPath) >= 3

\* the run that the client is waiting for has returned: its stream reported
\* done, or its fetch, a read or the parsing of a line failed
Returned(r) == current = r /\ run[r].pc \in {"closed", "failed"}

\* C28: once the response stream of a run has ended or failed, the client
\* leaves the running state, also when no terminal event was received. A run
\* that has returned takes no further step, so whatever it will ever do to
\* isRunning is done in the state where it returns
C28_EndedRunLeavesRunning ==
    \A r \in Runs : Returned(r) => ~DisplayRunning

\* C28, for the TSP client, whose runBFS ends with finally setIsRunning(false)
C28_TspLeavesRunning ==
    client = "tsp" => \A r \in Runs : Returned(r) => ~DisplayRunning

\* a TSP stream was cut before its done event and closed
C28_TspWitness ==
    /\ client = "tsp"
    /\ Returned(1)
    /\ run[1].pc = "closed"
    /\ run[1].seen # <<>>
    /\ \A i \in 1 .. Len(run[1].seen) : run[1].seen[i].type # "done"

\* C29: in the maze client the status is "running" only while a run is in
\* progress: wherever isRunning is false the status is idle, success or
\* failure, after any sequence of run, reset, stream events and connection
\* errors
C29_StatusRunningOnlyWhileRunning ==
    (client = "maze" /\ ~isRunning) =>
        simulation.status \in {"idle", "success", "failure"}

\* C29, as long as no run has failed: complete and reset set the status
\* together with isRunning
C29_HoldsWithoutFailure ==
    (client = "maze" /\ ~isRunning /\ \A r \in Runs : run[r].pc # "failed") =>
        simulation.status \in {"idle", "success", "failure"}

\* a run of the maze client has ended with complete, none has failed
C29_Witness ==
    /\ client = "maze"
    /\ ~isRunning
    /\ simulation.status = "success"
    /\ \A r \in Runs : run[r].pc # "failed"

-----------------------------------------------------------------------------
(* Claims about the tree the TSP client rebuilds *)

\* the routes that the events applied so far put into the tree: the root,
\* the route of every expand event, the closed route of every leaf event
TreeRoutes(evs) ==
    {<<0>>}
    \cup {evs[i].route : i \in EventsOfType(evs, "expand")}
    \cup {Append(evs[i].route, 0) : i \in EventsOfType(evs, "leaf")}

\* addToTree as the handlers call it on an event
AddEvent(root, e) ==
    CASE e.type = "expand" -> addToTree(root, e.parentPath, e.route, e.childCity)
      [] e.type = "leaf" -> addToTree(root, e.route, Append(e.route, 0), 0)
      [] OTHER -> root

\* the events applied once more: all of them when the run is over, the
\* latest ones while it goes on
Reapplied ==
    IF tspPc = "done" THEN 1 .. Len(tspEvents)
    ELSE {i \in 1 .. Len(tspEvents) : i + MaxCities >= Len(tspEvents)}

\* C30: the tree rebuilt from the events of a run holds exactly one node for
\* the root, for each route of an expand event and for the closing city 0
\* under each leaf, each with id = its route joined by '-', depth = length of
\* the route - 1 and the route's last city; applying an expand or leaf event a
\* second time adds no node; an event whose parent path is not in the tree
\* leaves the tree unchanged
C30_TreeMatchesEvents ==
    LET T == app.treeRoot
        n == Len(cities)
    IN  /\ {T[i].at : i \in 1 .. Len(T)} = TreeRoutes(tspEvents)
        /\ Len(T) = Cardinality(TreeRoutes(tspEvents))
        /\ \A i \in 1 .. Len(T) :
             /\ T[i].id = Join(T[i].at)
             /\ T[i].depth = Len(T[i].at) - 1
             /\ T[i].cityIndex = Last(T[i].at)
        /\ \A i \in Reapplied : AddEvent(T, tspEvents[i]) = T
        /\ \A parent \in {<<0, c>> : c \in 0 .. n - 1}
                         \cup {Append(T[Len(T)].at, c) : c \in 0 .. n - 1} :
             ~HasNode(T, parent) =>
               /\ \A d \in 0 .. n - 1 : addToTree(T, parent, Append(parent, d), d) = T
               /\ addToTree(T, Append(parent, 0), Append(Append(parent, 0), 0), 0) = T

\* a run on four cities is over: the tree has its root, the routes of every
\* length and the closing nodes
C30_Witness ==
    /\ tspPc = "done"
    /\ Len(cities) = 4
    /\ Len(app.treeRoot) = 1 + 3 + 6 + 6 + 6
    /\ \E i \in 1 .. Len(app.treeRoot) : app.treeRoot[i].id = "0-2-1-3-0"

====
